---- MODULE Spec2Model ----
(***************************************************************************)
(* A state-machine model of usagi::VulkanGpuDevice (VulkanGpuDevice.cpp):  *)
(* construction, the debug-messenger callback, physical-device and queue   *)
(* selection, submission with per-batch resource retention, reclaiming,    *)
(* waitIdle, and destruction.  The Vulkan driver and the GPU are the       *)
(* environment: their answers are nondeterministic choices.                *)
(***************************************************************************)
EXTENDS Integers, Sequences, FiniteSets, TLC

\* ------------------------------------------------------------------ bounds
MaxDevices == 3
MaxFamilies == 2
MaxBatches == 2
MaxObjects == 3
MaxLabels == 3

\* ------------------------------------------------------------- vocabulary
Range(s) == {s[i] : i \in 1..Len(s)}

SeqsUpTo(S, n) == UNION {[1..k -> S] : k \in 0..n}

\* vk::PhysicalDeviceType
DeviceTypes == {"eOther", "eIntegratedGpu", "eDiscreteGpu", "eVirtualGpu", "eCpu"}

\* vk::QueueFlagBits
QueueFlagBits == {"eGraphics", "eCompute", "eTransfer"}

\* vk::DebugUtilsMessageSeverityFlagBitsEXT
SeverityBits == {"eVerbose", "eInfo", "eWarning", "eError"}

\* What enumeratePhysicalDevices() can return: the device types, in order.
DeviceLists == SeqsUpTo(DeviceTypes, MaxDevices)

\* What getQueueFamilyProperties() can return, each family with the answer
\* the platform gives for presentation support on it.
QueueFamily == [queueFlags : SUBSET QueueFlagBits, present : BOOLEAN]

QueueFamilyTables == SeqsUpTo(QueueFamily, MaxFamilies)

\* The callback data the driver hands to the debug messenger.
CallbackData ==
    [severity : SUBSET SeverityBits,
     objectCount : 0..MaxObjects,
     cmdBufLabelCount : 0..MaxLabels]

\* Resources of this backend (derived from VulkanBatchResource) and handles
\* of another backend that a caller may pass through the abstract interface.
VulkanCommandLists == {"cmd1"}
VulkanSemaphores == {"sem1", "sem2"}
ForeignCommandLists == {"cmdX"}
ForeignSemaphores == {"semX"}
VulkanResources == VulkanCommandLists \cup VulkanSemaphores

\* Fence handles the driver can hand out; a destroyed fence's handle is free
\* for reuse.
FenceIds == 1..MaxBatches

\* handedIn when no submission is outstanding.
NothingHandedIn == [g \in {} |-> {}]

\* Members of VulkanGpuDevice whose lifetime the model tracks.
Members ==
    {"mInstance", "mDebugUtilsMessenger", "mDevice", "mDynamicBufferPool",
     "mHostImagePool", "mBatchResourceLists"}

VARIABLES
    pc,                         \* position of the render thread in the device's code
    obj,                        \* member -> "null" | "live" | "destroyed"
    initLog,                    \* the initialization steps the constructor has run
    mPhysicalDevice,            \* 0 = null handle, else index in the enumeration
    mGraphicsQueueFamilyIndex,  \* -1 until createDeviceAndQueues stores it
    mBatchResourceLists,        \* sequence of [fence, resources]
    fence,                      \* fence handle -> "Free" | "Unsignaled" | "Signaled"
    queue,                      \* fences of the batches the graphics queue still executes
    created,                    \* resources of this backend that were created
    callerRefs,                 \* resources the caller still holds a shared_ptr to
    handedIn,                   \* fence -> resources handed to that submission
    exception,                  \* what the last call threw, "none" if it returned
    idle,                       \* waitIdle returned and nothing was submitted since
    queried,                    \* fences whose status the last reclaimResources asked for
    physical_devices,           \* selectPhysicalDevice's enumeration (when an input)
    queue_families,             \* createDeviceAndQueues' family table (when an input)
    callback_data,              \* the debug callback's input
    logLines,                   \* the lines the debug callback logged
    cbReturn                    \* the debug callback's return value

vars ==
    <<pc, obj, initLog, mPhysicalDevice, mGraphicsQueueFamilyIndex,
      mBatchResourceLists, fence, queue, created, callerRefs, handedIn,
      exception, idle, queried, physical_devices, queue_families,
      callback_data, logLines, cbReturn>>

deviceVars ==
    <<pc, obj, initLog, mPhysicalDevice, mGraphicsQueueFamilyIndex,
      mBatchResourceLists, fence, queue, created, callerRefs, handedIn,
      exception, idle, queried>>

inputVars == <<physical_devices, queue_families>>

callbackVars == <<callback_data, logLines, cbReturn>>

\* ------------------------------------------------- debug messenger callback
\* The severity-to-level chain of if/else-if tests.
Level(message_severity) ==
    IF "eVerbose" \in message_severity THEN "debug"
    ELSE IF "eInfo" \in message_severity THEN "info"
    ELSE IF "eWarning" \in message_severity THEN "warn"
    ELSE IF "eError" \in message_severity THEN "err"
    ELSE "info"

\* The header line logged before the labels, at the fixed level info.
LabelCountLine == <<[level |-> "info", kind |-> "label_count", index |-> 0]>>

\* A callback whose object loop runs while i <= objectCount.
CallbackLinesOneObjectMore(data) ==
    LET level == Level(data.severity)
        message == <<[level |-> level, kind |-> "message", index |-> 0]>>
        objects ==
            [i \in 1..(data.objectCount + 1) |->
                [level |-> level, kind |-> "object", index |-> i - 1]]
        labels ==
            [i \in 1..data.cmdBufLabelCount |->
                [level |-> level, kind |-> "label", index |-> i - 1]]
    IN  message \o (IF data.objectCount > 0 THEN objects ELSE <<>>)
            \o (IF data.cmdBufLabelCount > 0
                THEN LabelCountLine \o labels
                ELSE <<>>)

\* The log calls of one callback invocation, in order.
CallbackLines(data) ==
    LET level == Level(data.severity)
        message == <<[level |-> level, kind |-> "message", index |-> 0]>>
        objects ==
            [i \in 1..data.objectCount |->
                [level |-> level, kind |-> "object", index |-> i - 1]]
        labels ==
            [i \in 1..data.cmdBufLabelCount |->
                [level |-> level, kind |-> "label", index |-> i - 1]]
    IN  message \o objects
            \o (IF data.cmdBufLabelCount > 0
                THEN LabelCountLine \o labels
                ELSE <<>>)

debugMessengerCallback ==
    /\ cbReturn = "pending"
    /\ logLines' = logLines \o CallbackLines(callback_data)
    /\ cbReturn' = "VK_FALSE"
    /\ UNCHANGED <<callback_data, deviceVars, inputVars>>

\* ---------------------------------------------------------- queue selection
\* utility::matchAllFlags: every required bit is set.
matchAllFlags(flags, required) == required \subseteq flags

\* A selector that accepts a family having any of the required flags.
RECURSIVE SelectQueueAnyFlag(_, _, _)
SelectQueueAnyFlag(queue_family, queue_flags, i) ==
    IF i > Len(queue_family) THEN -1
    ELSE IF queue_family[i].queueFlags \cap queue_flags # {} THEN i - 1
    ELSE SelectQueueAnyFlag(queue_family, queue_flags, i + 1)

\* The loop of selectQueue from position i (1-based); the result is the
\* 0-based index of the first matching family, -1 standing for the throw.
RECURSIVE SelectQueueFrom(_, _, _)
SelectQueueFrom(queue_family, queue_flags, i) ==
    IF i > Len(queue_family) THEN -1
    ELSE IF matchAllFlags(queue_family[i].queueFlags, queue_flags) THEN i - 1
    ELSE SelectQueueFrom(queue_family, queue_flags, i + 1)

selectQueue(queue_family, queue_flags) ==
    SelectQueueFrom(queue_family, queue_flags, 1)

\* checkQueuePresentationCapacity: TRUE when it returns, FALSE when it throws.
checkQueuePresentationCapacity(queue_family, index) ==
    queue_family[index + 1].present

\* The flags createDeviceAndQueues asks selectQueue for.
GraphicsQueueFlags == {"eGraphics", "eTransfer"}

\* ------------------------------------------------ physical device selection
\* A loop that keeps the first discrete GPU it meets.
RECURSIVE SelectFirstDiscreteFrom(_, _, _)
SelectFirstDiscreteFrom(devs, i, cur) ==
    IF i > Len(devs) THEN cur
    ELSE SelectFirstDiscreteFrom(devs, i + 1,
            IF cur = 0 THEN i
            ELSE IF devs[i] = "eDiscreteGpu" /\ devs[cur] # "eDiscreteGpu" THEN i
            ELSE cur)

\* The loop over the enumerated devices from position i, cur being
\* mPhysicalDevice (0 = null handle).
RECURSIVE SelectPhysicalDeviceFrom(_, _, _)
SelectPhysicalDeviceFrom(devs, i, cur) ==
    IF i > Len(devs) THEN cur
    ELSE SelectPhysicalDeviceFrom(devs, i + 1,
            IF cur = 0 THEN i
            ELSE IF devs[i] = "eDiscreteGpu" THEN i
            ELSE cur)

\* ------------------------------------------------------------- constructor
\* Stack unwinding of a throwing constructor: the members already
\* constructed are destroyed.
Unwind(o) == [m \in Members |-> IF o[m] = "live" THEN "destroyed" ELSE o[m]]

\* A constructor that catches the exception of a step and goes on.
ConstructorSwallows(step, what) ==
    /\ initLog' = Append(initLog, step)
    /\ exception' = what
    /\ pc' = CASE step = "createInstance" -> "createDebugReport"
              [] step = "createDebugReport" -> "selectPhysicalDevice"
              [] step = "selectPhysicalDevice" -> "createDeviceAndQueues"
              [] step = "createDeviceAndQueues" -> "createMemoryPools"
              [] step = "createMemoryPools" -> "ready"
    /\ UNCHANGED <<obj, mBatchResourceLists>>

\* A constructor step throws: the exception leaves the constructor.
ConstructorThrows(step, what) ==
    /\ initLog' = Append(initLog, step)
    /\ exception' = what
    /\ pc' = "failed"
    /\ obj' = Unwind(obj)
    /\ mBatchResourceLists' = <<>>

createInstance(ok) ==
    /\ pc = "createInstance"
    /\ IF ok
       THEN /\ initLog' = Append(initLog, "createInstance")
            /\ obj' = [obj EXCEPT !["mInstance"] = "live"]
            /\ pc' = "createDebugReport"
            /\ UNCHANGED <<exception, mBatchResourceLists>>
       ELSE ConstructorThrows("createInstance", "DriverError")
    /\ UNCHANGED <<mPhysicalDevice, mGraphicsQueueFamilyIndex, fence, queue,
                   created, callerRefs, handedIn, idle, queried,
                   inputVars, callbackVars>>

createDebugReport(ok) ==
    /\ pc = "createDebugReport"
    /\ IF ok
       THEN /\ initLog' = Append(initLog, "createDebugReport")
            /\ obj' = [obj EXCEPT !["mDebugUtilsMessenger"] = "live"]
            /\ pc' = "selectPhysicalDevice"
            /\ UNCHANGED <<exception, mBatchResourceLists>>
       ELSE ConstructorThrows("createDebugReport", "DriverError")
    /\ UNCHANGED <<mPhysicalDevice, mGraphicsQueueFamilyIndex, fence, queue,
                   created, callerRefs, handedIn, idle, queried,
                   inputVars, callbackVars>>

selectPhysicalDevice(devs) ==
    /\ pc = "selectPhysicalDevice"
    /\ LET chosen == SelectPhysicalDeviceFrom(devs, 1, mPhysicalDevice)
       IN  /\ mPhysicalDevice' = chosen
           /\ IF chosen = 0
              THEN ConstructorThrows("selectPhysicalDevice", "NoGpu")
              ELSE /\ initLog' = Append(initLog, "selectPhysicalDevice")
                   /\ pc' = "createDeviceAndQueues"
                   /\ UNCHANGED <<exception, obj, mBatchResourceLists>>
    /\ UNCHANGED <<mGraphicsQueueFamilyIndex, fence, queue, created,
                   callerRefs, handedIn, idle, queried, inputVars,
                   callbackVars>>

createDeviceAndQueues(families, createOk) ==
    /\ pc = "createDeviceAndQueues"
    /\ LET graphics_queue_index == selectQueue(families, GraphicsQueueFlags)
       IN  IF graphics_queue_index = -1
           THEN /\ ConstructorThrows("createDeviceAndQueues", "NoQueueFamily")
                /\ UNCHANGED mGraphicsQueueFamilyIndex
           ELSE IF ~checkQueuePresentationCapacity(families, graphics_queue_index)
           THEN /\ ConstructorThrows("createDeviceAndQueues", "NoPresent")
                /\ UNCHANGED mGraphicsQueueFamilyIndex
           ELSE IF ~createOk
           THEN /\ ConstructorThrows("createDeviceAndQueues", "DriverError")
                /\ UNCHANGED mGraphicsQueueFamilyIndex
           ELSE /\ initLog' = Append(initLog, "createDeviceAndQueues")
                /\ obj' = [obj EXCEPT !["mDevice"] = "live"]
                /\ mGraphicsQueueFamilyIndex' = graphics_queue_index
                /\ pc' = "createMemoryPools"
                /\ UNCHANGED <<exception, mBatchResourceLists>>
    /\ UNCHANGED <<mPhysicalDevice, fence, queue, created, callerRefs,
                   handedIn, idle, queried, inputVars, callbackVars>>

createMemoryPools(dynamicOk, hostOk) ==
    /\ pc = "createMemoryPools"
    /\ IF ~dynamicOk
       THEN ConstructorThrows("createMemoryPools", "DriverError")
       ELSE IF ~hostOk
       THEN ConstructorThrows("createMemoryPools", "DriverError")
       ELSE /\ initLog' = Append(initLog, "createMemoryPools")
            /\ obj' = [obj EXCEPT !["mDynamicBufferPool"] = "live",
                                  !["mHostImagePool"] = "live"]
            /\ pc' = "ready"
            /\ UNCHANGED <<exception, mBatchResourceLists>>
    /\ UNCHANGED <<mPhysicalDevice, mGraphicsQueueFamilyIndex, fence, queue,
                   created, callerRefs, handedIn, idle, queried,
                   inputVars, callbackVars>>

\* VulkanGpuDevice::VulkanGpuDevice(): the five steps, in the order pc
\* walks them.
Constructor ==
    \/ \E ok \in BOOLEAN : createInstance(ok)
    \/ \E ok \in BOOLEAN : createDebugReport(ok)
    \/ \E devs \in DeviceLists : selectPhysicalDevice(devs)
    \/ \E families \in QueueFamilyTables, ok \in BOOLEAN :
            createDeviceAndQueues(families, ok)
    \/ \E dynamicOk \in BOOLEAN, hostOk \in BOOLEAN :
            createMemoryPools(dynamicOk, hostOk)

\* --------------------------------------------------------------- factories
\* createSemaphore: a fresh semaphore, shared with the caller alone.
createSemaphore(ok) ==
    /\ pc = "ready"
    /\ IF ok
       THEN \E s \in VulkanSemaphores \ created :
                /\ created' = created \cup {s}
                /\ callerRefs' = callerRefs \cup {s}
                /\ exception' = "none"
       ELSE /\ exception' = "CreateSemaphoreFailed"
            /\ UNCHANGED <<created, callerRefs>>
    /\ queried' = <<>>
    /\ UNCHANGED <<pc, obj, initLog, mPhysicalDevice, mGraphicsQueueFamilyIndex,
                   mBatchResourceLists, fence, queue, handedIn, idle,
                   inputVars, callbackVars>>

\* A command list allocated from a pool that createCommandPool returned.
allocateGraphicsCommandList ==
    /\ pc = "ready"
    /\ \E c \in VulkanCommandLists \ created :
            /\ created' = created \cup {c}
            /\ callerRefs' = callerRefs \cup {c}
    /\ UNCHANGED <<pc, obj, initLog, mPhysicalDevice, mGraphicsQueueFamilyIndex,
                   mBatchResourceLists, fence, queue, handedIn, exception,
                   idle, queried, inputVars, callbackVars>>

\* The caller lets go of its shared_ptr to a resource.
dropReference ==
    /\ \E r \in callerRefs : callerRefs' = callerRefs \ {r}
    /\ UNCHANGED <<pc, obj, initLog, mPhysicalDevice, mGraphicsQueueFamilyIndex,
                   mBatchResourceLists, fence, queue, created, handedIn,
                   exception, idle, queried, inputVars, callbackVars>>

\* -------------------------------------------------------------- submission
\* The argument lists a caller passes to submitGraphicsJobs.
JobArgs == {<<"cmd1">>, <<"cmdX">>, <<"cmd1", "cmdX">>}
WaitArgs == {<<>>, <<"sem1">>, <<"semX">>}
SignalArgs == {<<"sem2">>, <<"semX">>}

\* vk::Result of vkQueueSubmit.
SubmitResults == {"eSuccess", "eErrorDeviceLost"}

\* A caller can pass only handles it holds; handles of another backend are
\* always at hand.
CallerHolds(args) ==
    Range(args) \subseteq
        (callerRefs \cup ForeignCommandLists \cup ForeignSemaphores)

\* Casts that check the command lists and trust the semaphores.
CastsCheckJobsOnly(jobs, wait_semaphores, signal_semaphores) ==
    Range(jobs) \subseteq VulkanCommandLists

\* dynamic_cast_ref<VulkanGraphicsCommandList> / <VulkanSemaphore> over the
\* three handle lists: TRUE when every cast succeeds, FALSE when one throws.
CastsSucceed(jobs, wait_semaphores, signal_semaphores) ==
    /\ Range(jobs) \subseteq VulkanCommandLists
    /\ Range(wait_semaphores) \subseteq VulkanSemaphores
    /\ Range(signal_semaphores) \subseteq VulkanSemaphores

\* A submission that forgets cast_append(signal_semaphores).
BatchResourcesWithoutSignal(jobs, wait_semaphores, signal_semaphores) ==
    jobs \o wait_semaphores

\* cast_append(jobs); cast_append(wait_semaphores);
\* cast_append(signal_semaphores).
BatchResources(jobs, wait_semaphores, signal_semaphores) ==
    jobs \o wait_semaphores \o signal_semaphores

\* mDevice->createFenceUnique: the lowest free fence handle.
NewFence == CHOOSE f \in FenceIds :
    /\ fence[f] = "Free"
    /\ \A g \in FenceIds : fence[g] = "Free" => f <= g

\* A submission that pushes the batch before it posts it to the queue.
ListPushedBeforeSubmit(list, batch_resources, result) ==
    Append(list, batch_resources)

\* mGraphicsQueue.submit(...) followed by push_back: a throwing submit
\* leaves the function before the push_back.
ListAfterSubmit(list, batch_resources, result) ==
    IF result = "eSuccess" THEN Append(list, batch_resources) ELSE list

\* The fence of batch_resources after the call: owned by the pushed batch,
\* or destroyed with the local when the submit threw.
FenceAfterSubmit(f, result) ==
    IF result = "eSuccess" THEN [fence EXCEPT ![f] = "Unsignaled"] ELSE fence

\* submitGraphicsJobs.  wait_stages is only translated into the submit info
\* and touches no state, so it is no parameter here.  The number of
\* outstanding batches is capped at MaxBatches.
submitGraphicsJobs(jobs, wait_semaphores, signal_semaphores, result) ==
    /\ pc = "ready"
    /\ CallerHolds(jobs \o wait_semaphores \o signal_semaphores)
    /\ \E f \in FenceIds : fence[f] = "Free"
    /\ Len(mBatchResourceLists) < MaxBatches
    /\ queried' = <<>>
    /\ IF ~CastsSucceed(jobs, wait_semaphores, signal_semaphores)
       THEN /\ exception' = "bad_cast"
            /\ UNCHANGED <<mBatchResourceLists, fence, queue, handedIn, idle>>
       ELSE LET batch_resources ==
                    [fence |-> NewFence,
                     resources |-> BatchResources(jobs, wait_semaphores,
                                                  signal_semaphores)]
            IN  /\ mBatchResourceLists' =
                        ListAfterSubmit(mBatchResourceLists, batch_resources,
                                        result)
                /\ fence' = FenceAfterSubmit(NewFence, result)
                /\ IF result = "eSuccess"
                   THEN /\ queue' = queue \cup {NewFence}
                        /\ handedIn' =
                              [g \in DOMAIN handedIn \cup {NewFence} |->
                                  IF g = NewFence
                                  THEN Range(jobs) \cup Range(wait_semaphores)
                                           \cup Range(signal_semaphores)
                                  ELSE handedIn[g]]
                        /\ idle' = FALSE
                        /\ exception' = "none"
                   ELSE /\ exception' = "SubmitFailed"
                        /\ UNCHANGED <<queue, handedIn, idle>>
    /\ UNCHANGED <<pc, obj, initLog, mPhysicalDevice, mGraphicsQueueFamilyIndex,
                   created, callerRefs, inputVars, callbackVars>>

\* The GPU finishes a batch and signals its fence.  Fences may be seen
\* signaled in any order: a reclaim pass runs beside the GPU, so it can
\* observe any mix of signaled and unsignaled fences.
gpuSignalsFence ==
    /\ \E f \in queue :
            /\ queue' = queue \ {f}
            /\ fence' = [fence EXCEPT
                            ![f] = IF @ = "Free" THEN "Free" ELSE "Signaled"]
    /\ UNCHANGED <<pc, obj, initLog, mPhysicalDevice, mGraphicsQueueFamilyIndex,
                   mBatchResourceLists, created, callerRefs, handedIn,
                   exception, idle, queried, inputVars, callbackVars>>

\* ----------------------------------------------------------------- reclaim
\* mBatchResourceLists.erase(i): the list without its i-th element.
Erase(list, i) == [k \in 1..(Len(list) - 1) |-> IF k < i THEN list[k] ELSE list[k + 1]]

\* A loop that increments the iterator erase() returned, stepping over the
\* batch that follows each erased one.
RECURSIVE ReclaimLoopSkipping(_, _, _)
ReclaimLoopSkipping(list, i, log) ==
    IF i > Len(list) THEN [list |-> list, log |-> log]
    ELSE IF fence[list[i].fence] = "Signaled"
    THEN ReclaimLoopSkipping(Erase(list, i), i + 1, Append(log, list[i].fence))
    ELSE ReclaimLoopSkipping(list, i + 1, Append(log, list[i].fence))

\* The for loop of reclaimResources with the iterator at position i; log is
\* the sequence of fences passed to getFenceStatus so far.
RECURSIVE ReclaimLoop(_, _, _)
ReclaimLoop(list, i, log) ==
    IF i > Len(list) THEN [list |-> list, log |-> log]
    ELSE IF fence[list[i].fence] = "Signaled"
    THEN ReclaimLoop(Erase(list, i), i, Append(log, list[i].fence))
    ELSE ReclaimLoop(list, i + 1, Append(log, list[i].fence))

\* Fences owned by the batches of a list.
FencesOf(list) == {list[i].fence : i \in 1..Len(list)}

reclaimResources ==
    /\ pc = "ready"
    /\ LET pass == ReclaimLoop(mBatchResourceLists, 1, <<>>)
           erased == FencesOf(mBatchResourceLists) \ FencesOf(pass.list)
       IN  /\ mBatchResourceLists' = pass.list
           /\ queried' = pass.log
           /\ fence' = [f \in FenceIds |->
                            IF f \in erased THEN "Free" ELSE fence[f]]
    /\ handedIn' = [g \in {h \in DOMAIN handedIn : fence[h] # "Signaled"} |->
                        handedIn[g]]
    /\ exception' = "none"
    /\ UNCHANGED <<pc, obj, initLog, mPhysicalDevice, mGraphicsQueueFamilyIndex,
                   queue, created, callerRefs, idle, inputVars, callbackVars>>

\* ---------------------------------------------------------------- waitIdle
\* vkDeviceWaitIdle returns once no queue of the device has work left.
DeviceIdle == queue = {}

waitIdle_call ==
    /\ pc = "ready"
    /\ pc' = "waitIdle"
    /\ queried' = <<>>
    /\ UNCHANGED <<obj, initLog, mPhysicalDevice, mGraphicsQueueFamilyIndex,
                   mBatchResourceLists, fence, queue, created, callerRefs,
                   handedIn, exception, idle, inputVars, callbackVars>>

\* A waitIdle that returns without waiting for the device.
waitIdle_returnsAtOnce ==
    /\ pc = "waitIdle"
    /\ pc' = "ready"
    /\ idle' = TRUE
    /\ exception' = "none"
    /\ UNCHANGED <<obj, initLog, mPhysicalDevice, mGraphicsQueueFamilyIndex,
                   mBatchResourceLists, fence, queue, created, callerRefs,
                   handedIn, queried, inputVars, callbackVars>>

waitIdle_return ==
    /\ pc = "waitIdle"
    /\ DeviceIdle
    /\ pc' = "ready"
    /\ idle' = TRUE
    /\ exception' = "none"
    /\ UNCHANGED <<obj, initLog, mPhysicalDevice, mGraphicsQueueFamilyIndex,
                   mBatchResourceLists, fence, queue, created, callerRefs,
                   handedIn, queried, inputVars, callbackVars>>

\* -------------------------------------------------------------- destructor
\* ~VulkanGpuDevice(): the body calls mDevice->waitIdle() ...
Destructor_call ==
    /\ pc = "ready"
    /\ pc' = "~waitIdle"
    /\ queried' = <<>>
    /\ UNCHANGED <<obj, initLog, mPhysicalDevice, mGraphicsQueueFamilyIndex,
                   mBatchResourceLists, fence, queue, created, callerRefs,
                   handedIn, exception, idle, inputVars, callbackVars>>

\* A destructor whose body does not wait for the device.
Destructor_withoutWaitIdle ==
    /\ pc = "~waitIdle"
    /\ pc' = "~members"
    /\ idle' = TRUE
    /\ UNCHANGED <<obj, initLog, mPhysicalDevice, mGraphicsQueueFamilyIndex,
                   mBatchResourceLists, fence, queue, created, callerRefs,
                   handedIn, exception, queried, inputVars, callbackVars>>

\* ... and ends when the device is idle ...
Destructor_waitIdle_return ==
    /\ pc = "~waitIdle"
    /\ DeviceIdle
    /\ pc' = "~members"
    /\ idle' = TRUE
    /\ UNCHANGED <<obj, initLog, mPhysicalDevice, mGraphicsQueueFamilyIndex,
                   mBatchResourceLists, fence, queue, created, callerRefs,
                   handedIn, exception, queried, inputVars, callbackVars>>

\* ... after which the members are destroyed, in reverse order of their
\* declaration in the class.
MemberDestructionOrder ==
    <<"mBatchResourceLists", "mHostImagePool", "mDynamicBufferPool", "mDevice",
      "mDebugUtilsMessenger", "mInstance">>

NextMemberToDestroy ==
    LET live == {i \in 1..Len(MemberDestructionOrder) :
                    obj[MemberDestructionOrder[i]] = "live"}
    IN  MemberDestructionOrder[CHOOSE i \in live : \A j \in live : i <= j]

Destructor_member ==
    /\ pc = "~members"
    /\ LET m == NextMemberToDestroy
           after == [obj EXCEPT ![m] = "destroyed"]
       IN  /\ obj' = after
           /\ pc' = IF \E n \in Members : after[n] = "live"
                    THEN "~members" ELSE "destroyed"
           /\ IF m = "mBatchResourceLists"
              THEN /\ mBatchResourceLists' = <<>>
                   /\ fence' = [f \in FenceIds |->
                                    IF f \in FencesOf(mBatchResourceLists)
                                    THEN "Free" ELSE fence[f]]
                   /\ handedIn' = NothingHandedIn
              ELSE UNCHANGED <<mBatchResourceLists, fence, handedIn>>
    /\ UNCHANGED <<initLog, mPhysicalDevice, mGraphicsQueueFamilyIndex, queue,
                   created, callerRefs, exception, idle, queried, inputVars,
                   callbackVars>>

\* ---------------------------------------------------------- specifications
NoCallback == [severity |-> {}, objectCount |-> 0, cmdBufLabelCount |-> 0]

\* The device before its constructor body runs: the handles are null, the
\* batch list is an empty container.
Unconstructed ==
    /\ pc = "createInstance"
    /\ obj = [m \in Members |->
                IF m = "mBatchResourceLists" THEN "live" ELSE "null"]
    /\ initLog = <<>>
    /\ mPhysicalDevice = 0
    /\ mGraphicsQueueFamilyIndex = -1
    /\ mBatchResourceLists = <<>>
    /\ fence = [f \in FenceIds |-> "Free"]
    /\ queue = {}
    /\ created = {}
    /\ callerRefs = {}
    /\ handedIn = NothingHandedIn
    /\ exception = "none"
    /\ idle = FALSE
    /\ queried = <<>>

\* The device as the constructor leaves it on a machine whose first device
\* and first queue family qualify.
Constructed ==
    /\ pc = "ready"
    /\ obj = [m \in Members |-> "live"]
    /\ initLog = <<"createInstance", "createDebugReport", "selectPhysicalDevice",
                   "createDeviceAndQueues", "createMemoryPools">>
    /\ mPhysicalDevice = 1
    /\ mGraphicsQueueFamilyIndex = 0
    /\ mBatchResourceLists = <<>>
    /\ fence = [f \in FenceIds |-> "Free"]
    /\ queue = {}
    /\ created = {}
    /\ callerRefs = {}
    /\ handedIn = NothingHandedIn
    /\ exception = "none"
    /\ idle = FALSE
    /\ queried = <<>>

NoInputs ==
    /\ physical_devices = <<>>
    /\ queue_families = <<>>

CallbackIdle ==
    /\ callback_data = NoCallback
    /\ logLines = <<>>
    /\ cbReturn = "none"

\* The device in use: factories, submissions, reclaims, waits, the GPU, and
\* finally the destructor.
Init == Constructed /\ NoInputs /\ CallbackIdle

Submit ==
    \E jobs \in JobArgs, wait_semaphores \in WaitArgs,
       signal_semaphores \in SignalArgs, result \in SubmitResults :
        submitGraphicsJobs(jobs, wait_semaphores, signal_semaphores, result)

Next ==
    \/ \E ok \in BOOLEAN : createSemaphore(ok)
    \/ allocateGraphicsCommandList
    \/ dropReference
    \/ Submit
    \/ gpuSignalsFence
    \/ reclaimResources
    \/ waitIdle_call
    \/ waitIdle_return
    \/ Destructor_call
    \/ Destructor_waitIdle_return
    \/ Destructor_member

Spec == Init /\ [][Next]_vars

\* The device before construction.
InitLifecycle == Unconstructed /\ NoInputs /\ CallbackIdle

\* The constructor followed by the first uses of the device it built.
NextConstruction ==
    \/ Constructor
    \/ \E ok \in BOOLEAN : createSemaphore(ok)
    \/ allocateGraphicsCommandList
    \/ Submit
    \/ gpuSignalsFence
    \/ reclaimResources

SpecConstruction == InitLifecycle /\ [][NextConstruction]_vars

\* selectPhysicalDevice applied to every enumeration.
InitSelectPhysicalDevice ==
    /\ pc = "selectPhysicalDevice"
    /\ obj = [m \in Members |->
                IF m \in {"mBatchResourceLists", "mInstance", "mDebugUtilsMessenger"}
                THEN "live" ELSE "null"]
    /\ initLog = <<"createInstance", "createDebugReport">>
    /\ mPhysicalDevice = 0
    /\ mGraphicsQueueFamilyIndex = -1
    /\ mBatchResourceLists = <<>>
    /\ fence = [f \in FenceIds |-> "Free"]
    /\ queue = {}
    /\ created = {}
    /\ callerRefs = {}
    /\ handedIn = NothingHandedIn
    /\ exception = "none"
    /\ idle = FALSE
    /\ queried = <<>>
    /\ physical_devices \in DeviceLists
    /\ queue_families = <<>>
    /\ CallbackIdle

NextSelectPhysicalDevice == selectPhysicalDevice(physical_devices)

SpecSelectPhysicalDevice ==
    InitSelectPhysicalDevice /\ [][NextSelectPhysicalDevice]_vars

\* createDeviceAndQueues applied to every queue-family table.
InitSelectQueue ==
    /\ pc = "createDeviceAndQueues"
    /\ obj = [m \in Members |->
                IF m \in {"mBatchResourceLists", "mInstance", "mDebugUtilsMessenger"}
                THEN "live" ELSE "null"]
    /\ initLog = <<"createInstance", "createDebugReport", "selectPhysicalDevice">>
    /\ mPhysicalDevice = 1
    /\ mGraphicsQueueFamilyIndex = -1
    /\ mBatchResourceLists = <<>>
    /\ fence = [f \in FenceIds |-> "Free"]
    /\ queue = {}
    /\ created = {}
    /\ callerRefs = {}
    /\ handedIn = NothingHandedIn
    /\ exception = "none"
    /\ idle = FALSE
    /\ queried = <<>>
    /\ physical_devices = <<>>
    /\ queue_families \in QueueFamilyTables
    /\ CallbackIdle

NextSelectQueue == \E ok \in BOOLEAN : createDeviceAndQueues(queue_families, ok)

SpecSelectQueue == InitSelectQueue /\ [][NextSelectQueue]_vars

\* The debug messenger callback applied to every message.
InitDebugCallback ==
    /\ Constructed
    /\ NoInputs
    /\ callback_data \in CallbackData
    /\ logLines = <<>>
    /\ cbReturn = "pending"

NextDebugCallback == debugMessengerCallback

SpecDebugCallback == InitDebugCallback /\ [][NextDebugCallback]_vars

\* ============================================================== properties

\* Batches of the outstanding list whose fence is not signaled.
Unsignaled(list) == SelectSeq(list, LAMBDA b : fence[b.fence] # "Signaled")

AllSignaled(list) == \A i \in 1..Len(list) : fence[list[i].fence] = "Signaled"

\* C1. Batch retention: while the device's outstanding list exists, every
\* resource handed to a successful submission is held by the batch of that
\* submission in the outstanding list, until a reclaimResources call has
\* seen the batch's fence signaled, whatever the caller still holds.
BatchRetention ==
    obj["mBatchResourceLists"] = "live" =>
        \A f \in DOMAIN handedIn :
            \E i \in 1..Len(mBatchResourceLists) :
                /\ mBatchResourceLists[i].fence = f
                /\ handedIn[f] \subseteq Range(mBatchResourceLists[i].resources)

\* C1 witness: a submission of a command list, a wait semaphore and a signal
\* semaphore is outstanding, its fence unsignaled, and the caller has dropped
\* every reference it had.
BatchRetentionWitness ==
    \E f \in DOMAIN handedIn :
        /\ fence[f] = "Unsignaled"
        /\ handedIn[f] = {"cmd1", "sem1", "sem2"}
        /\ callerRefs = {}

\* C2. reclaimResources asks for the fence status of every outstanding
\* batch exactly once, in list order, and leaves exactly the batches whose
\* fence was not signaled, in their submission order.
ReclaimExact ==
    [][reclaimResources =>
        (/\ mBatchResourceLists' = Unsignaled(mBatchResourceLists)
         /\ queried' = [i \in 1..Len(mBatchResourceLists) |->
                           mBatchResourceLists[i].fence])]_vars

\* C2 witness: a reclaim pass has visited two batches, erased the first and
\* kept the second, whose fence is unsignaled.
ReclaimExactWitness ==
    /\ Len(queried) >= 2
    /\ Len(mBatchResourceLists) >= 1
    /\ mBatchResourceLists[1].fence = queried[2]
    /\ fence[queried[2]] = "Unsignaled"
    /\ fence[queried[1]] = "Free"

\* C3. Whenever waitIdle has returned and nothing was submitted since, the
\* fence of every outstanding batch is signaled, and a reclaimResources call
\* made then leaves the outstanding list empty.
WaitIdleThenReclaim ==
    /\ [](idle => AllSignaled(mBatchResourceLists))
    /\ [][(idle /\ reclaimResources) => mBatchResourceLists' = <<>>]_vars

\* C3 witness: after several submissions without a reclaim, waitIdle
\* returned and the one reclaimResources call that followed visited all the
\* batches and emptied the list.
WaitIdleThenReclaimWitness ==
    /\ idle
    /\ pc = "ready"
    /\ Len(queried) >= 2
    /\ mBatchResourceLists = <<>>

\* A step in which the render thread enters and leaves a device call on a
\* ready device (what every submitGraphicsJobs step is).
DuringCall == pc = "ready" /\ pc' = "ready" /\ callerRefs' = callerRefs

\* C6. A submission the driver rejects throws, leaves no fence behind and
\* leaves the outstanding list, the fences and the queue as they were; at
\* all times every fence that exists is owned by an outstanding batch.
SubmitFailureUnwinds ==
    /\ [](\A f \in FenceIds :
            fence[f] # "Free" => f \in FencesOf(mBatchResourceLists))
    /\ [][DuringCall =>
          \A jobs \in JobArgs, wait_semaphores \in WaitArgs,
             signal_semaphores \in SignalArgs :
            (/\ Range(jobs \o wait_semaphores \o signal_semaphores)
                    \subseteq VulkanResources
             /\ submitGraphicsJobs(jobs, wait_semaphores, signal_semaphores,
                                   "eErrorDeviceLost"))
            => (/\ exception' = "SubmitFailed"
                /\ mBatchResourceLists' = mBatchResourceLists
                /\ fence' = fence
                /\ queue' = queue)]_vars

\* C6 witness: a submission has just failed in the driver while an earlier
\* batch is outstanding; the list holds that batch alone.
SubmitFailureUnwindsWitness ==
    /\ exception = "SubmitFailed"
    /\ Len(mBatchResourceLists) = 1
    /\ Cardinality({f \in FenceIds : fence[f] # "Free"}) = 1

\* C9. A submission given a command list or a semaphore of another backend
\* throws bad_cast, posts nothing to the graphics queue, creates no fence
\* and leaves the outstanding list unchanged.
TypeConfusionRejected ==
    [][DuringCall =>
       \A jobs \in JobArgs, wait_semaphores \in WaitArgs,
          signal_semaphores \in SignalArgs, result \in SubmitResults :
            (/\ Range(jobs \o wait_semaphores \o signal_semaphores)
                    \cap (ForeignCommandLists \cup ForeignSemaphores) # {}
             /\ submitGraphicsJobs(jobs, wait_semaphores, signal_semaphores,
                                   result))
            => (/\ exception' = "bad_cast"
                /\ mBatchResourceLists' = mBatchResourceLists
                /\ fence' = fence
                /\ queue' = queue)]_vars

\* C9 witness: a submission has just been refused for a foreign handle while
\* an earlier batch is outstanding and still executing.
TypeConfusionRejectedWitness ==
    /\ exception = "bad_cast"
    /\ Len(mBatchResourceLists) = 1
    /\ queue = FencesOf(mBatchResourceLists)

\* The place of each member in the order of release the destruction keeps.
ReleaseRank(m) ==
    CASE m = "mBatchResourceLists" -> 1
      [] m \in {"mDynamicBufferPool", "mHostImagePool"} -> 2
      [] m = "mDevice" -> 3
      [] m = "mDebugUtilsMessenger" -> 4
      [] m = "mInstance" -> 5

\* C8. Once the destructor has begun nothing is submitted any more; no
\* member is released while the graphics queue still executes a batch or an
\* outstanding fence is unsignaled; and the members are released in the
\* order batch list, memory pools, logical device, debug sink, instance.
DestructionOrder ==
    /\ []((\E m \in Members : obj[m] = "destroyed") =>
            /\ queue = {}
            /\ \A f \in FenceIds : fence[f] # "Unsignaled")
    /\ [](\A m, n \in Members :
            (obj[m] = "destroyed" /\ ReleaseRank(n) < ReleaseRank(m))
                => obj[n] = "destroyed")
    /\ [][(pc \in {"~waitIdle", "~members", "destroyed"}) =>
            (/\ pc' \in {"~waitIdle", "~members", "destroyed"}
             /\ queue' \subseteq queue
             /\ Len(mBatchResourceLists') <= Len(mBatchResourceLists))]_vars

\* C8 witness: the destructor was entered with two batches outstanding, its
\* wait has returned, and the members are about to be released.
DestructionOrderWitness ==
    /\ pc = "~members"
    /\ Len(mBatchResourceLists) >= 2
    /\ \A m \in Members : obj[m] = "live"

\* The order in which the constructor is to run its steps.
ConstructionOrder ==
    <<"createInstance", "createDebugReport", "selectPhysicalDevice",
      "createDeviceAndQueues", "createMemoryPools">>

IsPrefix(a, b) == Len(a) <= Len(b) /\ \A i \in 1..Len(a) : a[i] = b[i]

\* C7. The constructor runs its steps in the fixed order; a step that
\* throws ends the construction at once: no later step runs, nothing of the
\* device stays alive, the device is never ready and no factory, submission
\* or reclaim ever runs on it; a ready device has run all five steps.
ConstructionFailsFast ==
    /\ [](IsPrefix(initLog, ConstructionOrder))
    /\ []((pc \in Range(ConstructionOrder)) => exception = "none")
    /\ [](pc = "ready" =>
            /\ initLog = ConstructionOrder
            /\ \A m \in Members : obj[m] = "live")
    /\ [](pc = "failed" =>
            /\ exception # "none"
            /\ \A m \in Members : obj[m] # "live"
            /\ created = {}
            /\ mBatchResourceLists = <<>>)
    /\ [][(pc = "failed") => UNCHANGED vars]_vars

\* C7 witness: the fourth step has thrown after three steps succeeded.
ConstructionFailsFastWitness ==
    /\ pc = "failed"
    /\ initLog = SubSeq(ConstructionOrder, 1, 4)
    /\ exception = "NoPresent"
    /\ obj["mInstance"] = "destroyed"

\* Positions of the families that have both the graphics and the transfer
\* flag.
Capable(families) ==
    {i \in 1..Len(families) :
        {"eGraphics", "eTransfer"} \subseteq families[i].queueFlags}

Lowest(S) == CHOOSE i \in S : \A j \in S : i <= j

\* C4 as stated: the selection yields the lowest family that has the flags
\* and supports presentation, and fails only when there is none.
QueueSelectionLowestPresentable ==
    (pc # "createDeviceAndQueues" /\ exception # "DriverError") =>
        LET good == {i \in Capable(queue_families) : queue_families[i].present}
        IN  IF good = {}
            THEN pc = "failed"
            ELSE /\ pc = "createMemoryPools"
                 /\ mGraphicsQueueFamilyIndex = Lowest(good) - 1

\* C4 amended: the selection takes the lowest family that has the flags; it
\* yields that family when it supports presentation, and fails when no
\* family has the flags or when that family does not support presentation.
QueueSelectionFirstCapable ==
    (pc # "createDeviceAndQueues" /\ exception # "DriverError") =>
        LET capable == Capable(queue_families)
        IN  IF capable = {}
            THEN pc = "failed" /\ exception = "NoQueueFamily"
            ELSE IF queue_families[Lowest(capable)].present
            THEN /\ pc = "createMemoryPools"
                 /\ exception = "none"
                 /\ mGraphicsQueueFamilyIndex = Lowest(capable) - 1
            ELSE pc = "failed" /\ exception = "NoPresent"

\* C4 witness: the selection has failed on a table whose first capable
\* family cannot present while a later capable family can.
QueueSelectionFirstCapableWitness ==
    /\ pc = "failed"
    /\ exception = "NoPresent"
    /\ Len(queue_families) = 2
    /\ Capable(queue_families) = {1, 2}
    /\ ~queue_families[1].present
    /\ queue_families[2].present

\* C5. selectPhysicalDevice throws on an empty enumeration, and otherwise
\* chooses the last discrete GPU of the enumeration, or the first device
\* when none is discrete.
PhysicalDeviceChoice ==
    pc # "selectPhysicalDevice" =>
        LET discrete == {i \in 1..Len(physical_devices) :
                            physical_devices[i] = "eDiscreteGpu"}
        IN  IF physical_devices = <<>>
            THEN pc = "failed" /\ exception = "NoGpu"
            ELSE /\ pc = "createDeviceAndQueues"
                 /\ exception = "none"
                 /\ mPhysicalDevice =
                        IF discrete = {} THEN 1
                        ELSE CHOOSE i \in discrete : \A j \in discrete : j <= i

\* C5 witness: of two discrete GPUs followed by another device, the second
\* discrete GPU was chosen.
PhysicalDeviceChoiceWitness ==
    /\ pc = "createDeviceAndQueues"
    /\ Len(physical_devices) = 3
    /\ physical_devices[1] = "eDiscreteGpu"
    /\ physical_devices[2] = "eDiscreteGpu"
    /\ physical_devices[3] = "eIntegratedGpu"
    /\ mPhysicalDevice = 2

LinesOfKind(kind) == {i \in 1..Len(logLines) : logLines[i].kind = kind}

\* C10 as stated: the callback logs exactly 1 + n + m lines, all at the
\* level of the severity, and returns "do not abort".
CallbackLogsOnePerItem ==
    cbReturn # "pending" =>
        /\ cbReturn = "VK_FALSE"
        /\ Len(logLines) =
                1 + callback_data.objectCount + callback_data.cmdBufLabelCount
        /\ \A i \in 1..Len(logLines) :
                logLines[i].level = Level(callback_data.severity)

\* C10 amended: the callback logs one message line, one line per object and
\* one line per label, all at the level of the severity, and, when there is
\* at least one label, one more line before the labels that gives the label
\* count at level info; it returns "do not abort".
CallbackLogsItemsAndLabelCount ==
    cbReturn # "pending" =>
        /\ cbReturn = "VK_FALSE"
        /\ Cardinality(LinesOfKind("message")) = 1
        /\ logLines[1].kind = "message"
        /\ Cardinality(LinesOfKind("object")) = callback_data.objectCount
        /\ Cardinality(LinesOfKind("label")) = callback_data.cmdBufLabelCount
        /\ Cardinality(LinesOfKind("label_count")) =
                IF callback_data.cmdBufLabelCount > 0 THEN 1 ELSE 0
        /\ Len(logLines) =
                1 + callback_data.objectCount + callback_data.cmdBufLabelCount
                  + (IF callback_data.cmdBufLabelCount > 0 THEN 1 ELSE 0)
        /\ \A i \in 1..Len(logLines) :
                logLines[i].level =
                    IF logLines[i].kind = "label_count" THEN "info"
                    ELSE Level(callback_data.severity)
        /\ \A i \in LinesOfKind("label_count"), j \in LinesOfKind("label") :
                i < j

\* C10 witness: the callback has handled an error message with two objects
\* and two labels.
CallbackLogsItemsAndLabelCountWitness ==
    /\ cbReturn = "VK_FALSE"
    /\ callback_data.severity = {"eError"}
    /\ callback_data.objectCount = 2
    /\ callback_data.cmdBufLabelCount = 2
    /\ Len(logLines) = 6

====
